---- MODULE Spec2Model ----
(***************************************************************************)
(* Model of extensionProfileService.ts: ExtensionHostProfileService (the   *)
(* profiling session state machine) and ProfileExtHostStatusbarItem (the   *)
(* status bar indicator it drives).                                        *)
(*                                                                         *)
(* Every handler of the source is a function from the program state (a     *)
(* record s) to the program state after the handler has run to completion. *)
(* Each effect a handler has on the outside world (an event fired to       *)
(* listeners, an error reported, a request sent to the extension host, an  *)
(* editor opened) is appended to s.trace together with the fields a        *)
(* listener would read at that moment.                                     *)
(*                                                                         *)
(* Init is the program after the status bar has constructed and rendered   *)
(* the item (statusBarItem exists and is hidden) and the service has been  *)
(* constructed.  Promises settle asynchronously: a continuation is a       *)
(* handler of its own, run whenever its request is pending, whatever the   *)
(* fields hold by then.  The clock is in milliseconds since the epoch and  *)
(* is never 0.                                                             *)
(*                                                                         *)
(* Emitter.fire calls the listeners synchronously.  A listener either only *)
(* reads the fields (the snapshot in s.trace) or calls back into the       *)
(* service: s.listeners names the calls the subscribed listeners make.     *)
(***************************************************************************)
EXTENDS Integers, Sequences, FiniteSets, TLC

VARIABLES
    state,           \* ExtensionHostProfileService._state
    profileSession,  \* ExtensionHostProfileService._profileSession
    profile,         \* ExtensionHostProfileService._profile
    clickHandler,    \* ProfileExtHostStatusbarItem.clickHandler
    hidden,          \* ProfileExtHostStatusbarItem.statusBarItem.hidden
    timeStarted,     \* ProfileExtHostStatusbarItem.timeStarted
    labelUpdater,    \* ProfileExtHostStatusbarItem.labelUpdater
    label,           \* ProfileExtHostStatusbarItem.label.textContent
    timers,          \* live setInterval timers: id -> time of the next tick
    pendingStarts,   \* startExtensionHostProfile() promises not yet settled
    pendingStops,    \* per session: stop() promises not yet settled
    stopCalls,       \* per session: how many times stop() was invoked on it
    nextHandle,      \* the next ProfileSession the extension host hands out
    now,             \* new Date().getTime()
    listeners,       \* what the subscribed event listeners do when called
    trace,           \* the effects of the handler that ran last, in order
    lastOp           \* the handler that ran last, its input, the fields before

vars == <<state, profileSession, profile, clickHandler, hidden, timeStarted,
          labelUpdater, label, timers, pendingStarts, pendingStops, stopCalls,
          nextHandle, now, listeners, trace, lastOp>>

----------------------------------------------------------------------------
(* Bounds *)

MaxSessions == 2
MaxArtifacts == 2
MaxClock == 3400

----------------------------------------------------------------------------
(* Values *)

null == 0

T0 == 1000

ClockDeltas == {400, 500}

IntervalMs == 1000

MsPerSec == 1000

ProfileSessionState == {"None", "Starting", "Running", "Stopping"}

Handles == 1..MaxSessions

Artifacts == 1..MaxArtifacts

StopAndOpen == 1

OtherHandler == 2

ClickHandlers == {StopAndOpen, OtherHandler}

Reactions == {"stopOnRunning", "startOnNone", "startOnLastProfile"}

StaticLabel == [elapsed |-> FALSE, sec |-> 0]

----------------------------------------------------------------------------
(* Effects *)

RECURSIVE onDidChangeStateFire(_), onDidChangeLastProfileFire(_)
RECURSIVE setState(_, _), startProfiling(_), stopProfiling(_)

Note(s, kind, arg) ==
    [s EXCEPT !.trace = Append(@, [kind |-> kind, arg |-> arg,
                                   state |-> s.state,
                                   profileSession |-> s.profileSession,
                                   profile |-> s.profile,
                                   hidden |-> s.hidden,
                                   clickHandler |-> s.clickHandler])]

onDidChangeStateFire(s) ==
    LET s1 == Note(s, "stateChanged", 0)
        s2 == IF "stopOnRunning" \in s1.listeners /\ s1.state = "Running"
              THEN stopProfiling(s1)
              ELSE s1
    IN IF "startOnNone" \in s2.listeners /\ s2.state = "None"
       THEN startProfiling(s2)
       ELSE s2

onDidChangeLastProfileFire(s) ==
    LET s1 == Note(s, "lastProfileChanged", 0)
    IN IF "startOnLastProfile" \in s1.listeners
       THEN startProfiling(s1)
       ELSE s1

onUnexpectedError(s) == Note(s, "error", 0)

openEditor(s) == Note(s, "openEditor", 0)

----------------------------------------------------------------------------
(* ProfileExtHostStatusbarItem *)

MathFloor(ms) == ms \div MsPerSec

MathRound(ms) == (2 * ms + MsPerSec) \div (2 * MsPerSec)

updateLabel(s) ==
    IF s.timeStarted > 0
    THEN [s EXCEPT !.label = [elapsed |-> TRUE,
                              sec |-> MathRound(now - s.timeStarted)]]
    ELSE [s EXCEPT !.label = StaticLabel]

setInterval(s) ==
    LET id == CHOOSE i \in 1..(Cardinality(DOMAIN s.timers) + 1) :
                  i \notin DOMAIN s.timers
    IN [s EXCEPT !.labelUpdater = id,
                 !.timers = [i \in DOMAIN s.timers \cup {id} |->
                                IF i = id THEN now + IntervalMs
                                          ELSE s.timers[i]]]

clearInterval(s, id) ==
    [s EXCEPT !.timers = [i \in DOMAIN s.timers \ {id} |-> s.timers[i]]]

showAlwaysResets(s, handler) ==
    LET s1 == [s EXCEPT !.clickHandler = handler]
    IN updateLabel(setInterval([s1 EXCEPT !.timeStarted = now,
                                          !.hidden = FALSE]))

show(s, handler) ==
    LET s1 == [s EXCEPT !.clickHandler = handler]
    IN IF s1.timeStarted = 0
       THEN updateLabel(setInterval([s1 EXCEPT !.timeStarted = now,
                                               !.hidden = FALSE]))
       ELSE s1

hideLeaksTimer(s) ==
    [s EXCEPT !.clickHandler = null,
              !.hidden = TRUE,
              !.timeStarted = 0,
              !.labelUpdater = null]

hideKeepsHandler(s) ==
    LET s1 == [s EXCEPT !.hidden = TRUE,
                        !.timeStarted = 0]
    IN [clearInterval(s1, s1.labelUpdater) EXCEPT !.labelUpdater = null]

hide(s) ==
    LET s1 == [s EXCEPT !.clickHandler = null,
                        !.hidden = TRUE,
                        !.timeStarted = 0]
    IN [clearInterval(s1, s1.labelUpdater) EXCEPT !.labelUpdater = null]

----------------------------------------------------------------------------
(* ExtensionHostProfileService *)

setStateHideOnNone(s, newState) ==
    IF s.state = newState
    THEN s
    ELSE LET s1 == [s EXCEPT !.state = newState]
             s2 == IF s1.state = "Running" THEN show(s1, StopAndOpen)
                   ELSE IF s1.state = "None" THEN hide(s1)
                   ELSE s1
         IN onDidChangeStateFire(s2)

setStateFireFirst(s, newState) ==
    IF s.state = newState
    THEN s
    ELSE LET s1 == onDidChangeStateFire([s EXCEPT !.state = newState])
         IN IF newState = "Running" THEN show(s1, StopAndOpen)
            ELSE IF newState = "Stopping" THEN hide(s1)
            ELSE s1

setStateShowOnStarting(s, newState) ==
    IF s.state = newState
    THEN s
    ELSE LET s1 == [s EXCEPT !.state = newState]
             s2 == IF s1.state = "Starting" THEN show(s1, StopAndOpen)
                   ELSE IF s1.state = "Stopping" THEN hide(s1)
                   ELSE s1
         IN onDidChangeStateFire(s2)

setState(s, newState) ==
    IF s.state = newState
    THEN s
    ELSE LET s1 == [s EXCEPT !.state = newState]
             s2 == IF s1.state = "Running" THEN show(s1, StopAndOpen)
                   ELSE IF s1.state = "Stopping" THEN hide(s1)
                   ELSE s1
         IN onDidChangeStateFire(s2)

setLastProfile(s, p) ==
    onDidChangeLastProfileFire([s EXCEPT !.profile = p])

startExtensionHostProfile(s) ==
    Note([s EXCEPT !.pendingStarts = @ + 1], "startRequest", 0)

sessionStop(s, h) ==
    Note([s EXCEPT !.pendingStops[h] = @ + 1, !.stopCalls[h] = @ + 1],
         "stopCall", h)

startProfilingUnguarded(s) ==
    startExtensionHostProfile(setState(s, "Starting"))

startProfilingUnlessRunning(s) ==
    IF s.state = "Running"
    THEN s
    ELSE startExtensionHostProfile(setState(s, "Starting"))

startProfilingWhileStopping(s) ==
    IF s.state \in {"Starting", "Running"}
    THEN s
    ELSE startExtensionHostProfile(setState(s, "Starting"))

startProfiling(s) ==
    IF s.state # "None"
    THEN s
    ELSE startExtensionHostProfile(setState(s, "Starting"))

startResolvedSessionLast(s, value) ==
    [setState(s, "Running") EXCEPT !.profileSession = value]

startResolved(s, value) ==
    setState([s EXCEPT !.profileSession = value], "Running")

startRejectedNoReset(s) ==
    onUnexpectedError(s)

startRejected(s) ==
    setState(onUnexpectedError(s), "None")

stopProfilingUnlessNone(s) ==
    IF s.state = "None"
    THEN s
    ELSE LET s1 == setState(s, "Stopping")
         IN IF s1.profileSession = null
            THEN Note(s1, "TypeError", 0)
            ELSE [sessionStop(s1, s1.profileSession)
                     EXCEPT !.profileSession = null]

stopProfilingKeepsSession(s) ==
    IF s.state # "Running"
    THEN s
    ELSE LET s1 == setState(s, "Stopping")
         IN IF s1.profileSession = null
            THEN Note(s1, "TypeError", 0)
            ELSE sessionStop(s1, s1.profileSession)

stopProfiling(s) ==
    IF s.state # "Running"
    THEN s
    ELSE LET s1 == setState(s, "Stopping")
         IN IF s1.profileSession = null
            THEN Note(s1, "TypeError", 0)
            ELSE [sessionStop(s1, s1.profileSession)
                     EXCEPT !.profileSession = null]

stopResolvedDropsResult(s, result) ==
    setState(s, "None")

stopResolvedStateFirst(s, result) ==
    setLastProfile(setState(s, "None"), result)

stopResolved(s, result) ==
    setState(setLastProfile(s, result), "None")

stopRejectedSilent(s) ==
    setState(s, "None")

stopRejected(s) ==
    setState(onUnexpectedError(s), "None")

getLastProfile == profile

clearLastProfileIfSet(s) ==
    IF s.profile # null THEN setLastProfile(s, null) ELSE s

clearLastProfile(s) == setLastProfile(s, null)

runClickHandlerOpenFirst(s) ==
    stopProfiling(openEditor(s))

runClickHandler(s) ==
    openEditor(stopProfiling(s))

clickListener(s) ==
    IF s.clickHandler # null
    THEN IF s.clickHandler = StopAndOpen
         THEN runClickHandler(s)
         ELSE Note(s, "otherHandler", 0)
    ELSE s

----------------------------------------------------------------------------
(* The state machine *)

Cur ==
    [state |-> state, profileSession |-> profileSession, profile |-> profile,
     clickHandler |-> clickHandler, hidden |-> hidden,
     timeStarted |-> timeStarted, labelUpdater |-> labelUpdater,
     label |-> label, timers |-> timers, pendingStarts |-> pendingStarts,
     pendingStops |-> pendingStops, stopCalls |-> stopCalls,
     listeners |-> listeners, trace |-> <<>>]

Pre == [state |-> state, profileSession |-> profileSession,
        profile |-> profile, hidden |-> hidden]

Commit(result, op, arg) ==
    \E r \in {result} :
        /\ state' = r.state
        /\ profileSession' = r.profileSession
        /\ profile' = r.profile
        /\ clickHandler' = r.clickHandler
        /\ hidden' = r.hidden
        /\ timeStarted' = r.timeStarted
        /\ labelUpdater' = r.labelUpdater
        /\ label' = r.label
        /\ timers' = r.timers
        /\ pendingStarts' = r.pendingStarts
        /\ pendingStops' = r.pendingStops
        /\ stopCalls' = r.stopCalls
        /\ listeners' = r.listeners
        /\ trace' = r.trace
        /\ lastOp' = [op |-> op, arg |-> arg, pre |-> Pre]

InitFields ==
    /\ state = "None"
    /\ profileSession = null
    /\ profile = null
    /\ clickHandler = null
    /\ hidden = TRUE
    /\ timeStarted = 0
    /\ labelUpdater = null
    /\ label = StaticLabel
    /\ timers = <<>>
    /\ pendingStarts = 0
    /\ pendingStops = [h \in Handles |-> 0]
    /\ stopCalls = [h \in Handles |-> 0]
    /\ nextHandle = 1
    /\ now = T0
    /\ trace = <<>>
    /\ lastOp = [op |-> "init", arg |-> 0,
                 pre |-> [state |-> "None", profileSession |-> null,
                          profile |-> null, hidden |-> TRUE]]

Init ==
    /\ InitFields
    /\ listeners = {}

ReentrantInit ==
    /\ InitFields
    /\ listeners \in SUBSET Reactions

StartProfiling ==
    /\ Commit(startProfiling(Cur), "startProfiling", 0)
    /\ UNCHANGED <<nextHandle, now>>

StopProfiling ==
    /\ Commit(stopProfiling(Cur), "stopProfiling", 0)
    /\ UNCHANGED <<nextHandle, now>>

ClearLastProfile ==
    /\ Commit(clearLastProfile(Cur), "clearLastProfile", 0)
    /\ UNCHANGED <<nextHandle, now>>

StartResolved ==
    /\ pendingStarts > 0
    /\ nextHandle <= MaxSessions
    /\ Commit(startResolved([Cur EXCEPT !.pendingStarts = @ - 1], nextHandle),
              "startResolved", nextHandle)
    /\ nextHandle' = nextHandle + 1
    /\ UNCHANGED now

StartRejected ==
    /\ pendingStarts > 0
    /\ Commit(startRejected([Cur EXCEPT !.pendingStarts = @ - 1]),
              "startRejected", 0)
    /\ UNCHANGED <<nextHandle, now>>

StopResolved ==
    \E h \in Handles, a \in Artifacts :
        /\ pendingStops[h] > 0
        /\ Commit(stopResolved([Cur EXCEPT !.pendingStops[h] = @ - 1], a),
                  "stopResolved", a)
        /\ UNCHANGED <<nextHandle, now>>

StopRejected ==
    \E h \in Handles :
        /\ pendingStops[h] > 0
        /\ Commit(stopRejected([Cur EXCEPT !.pendingStops[h] = @ - 1]),
                  "stopRejected", 0)
        /\ UNCHANGED <<nextHandle, now>>

Click ==
    /\ Commit(clickListener(Cur), "click", 0)
    /\ UNCHANGED <<nextHandle, now>>

TimerTick ==
    \E id \in DOMAIN timers :
        /\ now >= timers[id]
        /\ Commit(updateLabel([Cur EXCEPT !.timers[id] = now + IntervalMs]),
                  "timerTick", id)
        /\ UNCHANGED <<nextHandle, now>>

AdvanceClock ==
    \E d \in ClockDeltas :
        /\ now + d <= MaxClock
        /\ now' = now + d
        /\ trace' = <<>>
        /\ lastOp' = [op |-> "advanceClock", arg |-> d, pre |-> Pre]
        /\ UNCHANGED <<state, profileSession, profile, clickHandler, hidden,
                       timeStarted, labelUpdater, label, timers,
                       pendingStarts, pendingStops, stopCalls, nextHandle,
                       listeners>>

WorkerSettles == StartResolved \/ StartRejected \/ StopResolved \/ StopRejected

Next ==
    \/ StartProfiling
    \/ StopProfiling
    \/ ClearLastProfile
    \/ StartResolved
    \/ StartRejected
    \/ StopResolved
    \/ StopRejected
    \/ Click
    \/ TimerTick
    \/ AdvanceClock

Spec == Init /\ [][Next]_vars

ReentrantSpec == ReentrantInit /\ [][Next]_vars

ShowCall ==
    \E h \in ClickHandlers :
        /\ Commit(show(Cur, h), "show", h)
        /\ UNCHANGED <<nextHandle, now>>

HideCall ==
    /\ Commit(hide(Cur), "hide", 0)
    /\ UNCHANGED <<nextHandle, now>>

IndicatorNext ==
    \/ Next
    \/ ShowCall
    \/ HideCall

IndicatorSpec == Init /\ [][IndicatorNext]_vars

FairSpec == Spec /\ WF_vars(WorkerSettles)

----------------------------------------------------------------------------
(* Helpers for the properties *)

Count(tr, kind) == Cardinality({i \in DOMAIN tr : tr[i].kind = kind})

Edges ==
    {<<"None", "Starting">>, <<"Starting", "Running">>,
     <<"Starting", "None">>, <<"Running", "Stopping">>,
     <<"Stopping", "None">>}

\* The values _state took during a handler: the value before it, then the
\* value at each stateChanged event (_setState fires on every change).
StateChain(from, tr) ==
    <<from>> \o [i \in 1..Count(tr, "stateChanged") |->
                    LET k == CHOOSE j \in DOMAIN tr :
                                 /\ tr[j].kind = "stateChanged"
                                 /\ Cardinality({m \in 1..j :
                                        tr[m].kind = "stateChanged"}) = i
                    IN tr[k].state]

Indicator == <<clickHandler, hidden, timeStarted, labelUpdater, label, timers>>

Requests == <<pendingStarts, pendingStops, stopCalls>>

StopIssued(op) ==
    \/ op = "stopProfiling"
    \/ op = "click" /\ clickHandler # null

----------------------------------------------------------------------------
(* Claims *)

\* C1: the state is always one of None (Idle), Starting, Running, Stopping,
\* it starts at None, and every change of the state, also inside a handler,
\* is one of the edges None->Starting, Starting->Running, Starting->None,
\* Running->Stopping, Stopping->None.
C1_TransitionGraph ==
    [][/\ state \in ProfileSessionState
       /\ state' \in ProfileSessionState
       /\ lastOp.op = "init" => state = "None"
       /\ LET ch == StateChain(state, trace')
          IN /\ \A i \in 1..(Len(ch) - 1) : <<ch[i], ch[i + 1]>> \in Edges
             /\ state' = ch[Len(ch)]]_vars

C1_Witness ==
    /\ lastOp.op = "stopResolved"
    /\ lastOp.pre.state = "Stopping"
    /\ state = "None"
    /\ nextHandle > 1

\* C2: startProfiling() in Starting, Running or Stopping changes no field of
\* the service or the indicator, fires no event, reports no error and sends
\* no request to the extension host.
C2_StartNoOp ==
    [][(lastOp'.op = "startProfiling" /\ state # "None") =>
          /\ UNCHANGED <<state, profileSession, profile>>
          /\ UNCHANGED Indicator
          /\ UNCHANGED Requests
          /\ trace' = <<>>]_vars

C2_Witness ==
    /\ lastOp.op = "startProfiling"
    /\ lastOp.pre.state = "Stopping"
    /\ state = "Stopping"
    /\ trace = <<>>

\* C3: stopProfiling() in None, Starting or Stopping changes no field of the
\* service or the indicator, fires no event, reports no error and invokes
\* stop() on no session; in particular in Starting, where no session has
\* arrived yet.
C3_StopNoOp ==
    [][(lastOp'.op = "stopProfiling" /\ state # "Running") =>
          /\ UNCHANGED <<state, profileSession, profile>>
          /\ UNCHANGED Indicator
          /\ UNCHANGED Requests
          /\ trace' = <<>>]_vars

C3_Witness ==
    /\ lastOp.op = "stopProfiling"
    /\ lastOp.pre.state = "Starting"
    /\ state = "Starting"
    /\ pendingStarts = 1
    /\ trace = <<>>

\* C4: a session is held exactly when the state is Running, both between
\* handlers and in what a stateChanged listener reads when the event is
\* delivered to it.
C4_SessionIffRunning ==
    /\ (profileSession # null) <=> (state = "Running")
    /\ \A i \in DOMAIN trace :
          trace[i].kind = "stateChanged" =>
              ((trace[i].profileSession # null) <=> (trace[i].state = "Running"))

\* C5: an accepted stop leaves the state Stopping and the session field
\* empty when it returns, with the one stop request outstanding; a stop
\* issued while Stopping invokes nothing; no session is ever asked to stop
\* twice nor has two stop requests outstanding.
C5_StopOnce ==
    [][/\ (StopIssued(lastOp'.op) /\ state = "Running") =>
              /\ state' = "Stopping"
              /\ profileSession' = null
              /\ profileSession \in Handles
              /\ pendingStops'[profileSession] = 1
              /\ Count(trace', "stopCall") = 1
       /\ (StopIssued(lastOp'.op) /\ state = "Stopping") =>
              /\ Count(trace', "stopCall") = 0
              /\ UNCHANGED Requests
       /\ \A h \in Handles : stopCalls'[h] <= 1 /\ pendingStops'[h] <= 1]_vars

C5_Witness ==
    /\ lastOp.op = "stopProfiling"
    /\ lastOp.pre.state = "Stopping"
    /\ state = "Stopping"
    /\ profileSession = null
    /\ \E h \in Handles : pendingStops[h] = 1 /\ stopCalls[h] = 1

\* C6: when a start request succeeds with session H the state is Running and
\* the session field is H; when a stop request succeeds with profile A the
\* state is None, the session field is empty, getLastProfile() is A and
\* lastProfileChanged has fired exactly once.
C6_SuccessResults ==
    [][/\ lastOp'.op = "startResolved" =>
              /\ state' = "Running"
              /\ profileSession' = lastOp'.arg
              /\ profileSession' \in Handles
       /\ lastOp'.op = "stopResolved" =>
              /\ state' = "None"
              /\ profileSession' = null
              /\ getLastProfile' = lastOp'.arg
              /\ getLastProfile' \in Artifacts
              /\ Count(trace', "lastProfileChanged") = 1]_vars

C6_Witness ==
    /\ lastOp.op = "stopResolved"
    /\ lastOp.pre.profile # null
    /\ profile # lastOp.pre.profile
    /\ profile = lastOp.arg
    /\ state = "None"

\* C7: when a start or a stop request fails, the error is reported exactly
\* once, the state is None, the session field is empty, the last profile is
\* unchanged, lastProfileChanged does not fire and no request is sent to the
\* extension host.
C7_FailureResults ==
    [][lastOp'.op \in {"startRejected", "stopRejected"} =>
          /\ Count(trace', "error") = 1
          /\ state' = "None"
          /\ profileSession' = null
          /\ profile' = profile
          /\ Count(trace', "lastProfileChanged") = 0
          /\ Count(trace', "startRequest") = 0
          /\ Count(trace', "stopCall") = 0
          /\ pendingStarts' <= pendingStarts
          /\ \A h \in Handles : pendingStops'[h] <= pendingStops[h]
          /\ stopCalls' = stopCalls]_vars

C7_Witness ==
    /\ lastOp.op = "stopRejected"
    /\ lastOp.pre.profile # null
    /\ profile = lastOp.pre.profile
    /\ state = "None"
    /\ Count(trace, "error") = 1

\* C8: the status bar item is visible exactly when the state is Running.
C8_VisibleIffRunning ==
    (~hidden) <=> (state = "Running")

C8_Witness ==
    /\ ~hidden
    /\ state = "Running"
    /\ nextHandle > 2

\* C9: if every request to the extension host settles, Starting always leads
\* to Running or None and Stopping always leads to None.
C9_TransientStatesEnd ==
    /\ (state = "Starting") ~> (state \in {"Running", "None"})
    /\ (state = "Stopping") ~> (state = "None")

C9_Witness ==
    /\ lastOp.op = "startRejected"
    /\ lastOp.pre.state = "Starting"
    /\ state = "None"

\* C10: clearLastProfile() in any state empties the last profile and fires
\* lastProfileChanged exactly once, also when the profile was empty already;
\* it fires nothing else and changes neither the state, the session field
\* nor the indicator.
C10_ClearLastProfile ==
    [][lastOp'.op = "clearLastProfile" =>
          /\ getLastProfile' = null
          /\ Count(trace', "lastProfileChanged") = 1
          /\ Len(trace') = 1
          /\ UNCHANGED <<state, profileSession>>
          /\ UNCHANGED Indicator
          /\ UNCHANGED Requests]_vars

C10_Witness ==
    /\ lastOp.op = "clearLastProfile"
    /\ lastOp.pre.profile = null
    /\ lastOp.pre.state = "Running"
    /\ profile = null
    /\ Count(trace, "lastProfileChanged") = 1

----------------------------------------------------------------------------
(* Helpers for the claims about the indicator and the events *)

Visible == ~hidden

LiveTimers == DOMAIN timers

RoundedSeconds(e) == (e + 500) \div 1000

RECURSIVE SumOver(_, _)
SumOver(f, S) ==
    IF S = {}
    THEN 0
    ELSE LET x == CHOOSE y \in S : TRUE
         IN f[x] + SumOver(f, S \ {x})

InFlightOK(st, starts, stops) ==
    /\ starts + SumOver(stops, Handles) <= 1
    /\ (starts = 1) <=> (st = "Starting")
    /\ (SumOver(stops, Handles) = 1) <=> (st = "Stopping")

----------------------------------------------------------------------------
(* Claims, continued *)

\* C11: show() on a visible item replaces only the click handler: the item
\* stays visible, timeStarted, the timer and the label are unchanged and no
\* second timer starts; while the item stays visible its origin is kept and
\* the seconds in the label never go back.
C11_ReshowKeepsOrigin ==
    [][/\ (lastOp'.op = "show" /\ Visible) =>
              /\ clickHandler' = lastOp'.arg
              /\ UNCHANGED <<hidden, timeStarted, labelUpdater, timers, label>>
              /\ Cardinality(DOMAIN timers') = 1
       /\ (Visible /\ Visible') =>
              /\ timeStarted' = timeStarted
              /\ label'.sec >= label.sec]_vars

C11_Witness ==
    /\ lastOp.op = "show"
    /\ ~lastOp.pre.hidden
    /\ lastOp.arg = OtherHandler
    /\ clickHandler = OtherHandler
    /\ Visible
    /\ now - timeStarted >= 900
    /\ label.sec >= 1

\* C12: hide() always leaves the item hidden with no click handler, no
\* origin and no timer; on a hidden item (also one never shown) it changes
\* nothing, and hiding twice gives what hiding once gives.
C12_HideIdempotent ==
    [][lastOp'.op = "hide" =>
          /\ hidden'
          /\ clickHandler' = null
          /\ timeStarted' = 0
          /\ labelUpdater' = null
          /\ LiveTimers' = {}
          /\ hidden => (UNCHANGED Indicator /\ trace' = <<>>)
          /\ hide(hide(Cur)) = hide(Cur)
          /\ UNCHANGED <<state, profileSession, profile>>]_vars

C12_Witness ==
    /\ lastOp.op = "hide"
    /\ lastOp.pre.hidden
    /\ hidden
    /\ clickHandler = null
    /\ nextHandle > 1

\* C13: whenever the label is redrawn, on a timer tick or when the item
\* becomes visible, it is the static text if timeStarted is empty and
\* otherwise carries floor((e + 500) / 1000) seconds for e elapsed
\* milliseconds since timeStarted; 2400 ms give 2 seconds.
C13_LabelRule ==
    [][(lastOp'.op = "timerTick" \/ (hidden /\ Visible')) =>
          label' = IF timeStarted' = 0
                   THEN StaticLabel
                   ELSE [elapsed |-> TRUE,
                         sec |-> RoundedSeconds(now' - timeStarted')]]_vars

C13_Witness ==
    /\ lastOp.op = "timerTick"
    /\ now - timeStarted = 2400
    /\ label = [elapsed |-> TRUE, sec |-> 2]

\* C14: at most one request to the extension host is in flight; one start
\* request is in flight exactly when the state is Starting and one stop
\* request exactly when it is Stopping, so each continuation runs in the
\* state that issued its request, with no session held.
C14_OneRequestInFlight ==
    [][/\ InFlightOK(state, pendingStarts, pendingStops)
       /\ InFlightOK(state', pendingStarts', pendingStops')
       /\ lastOp'.op \in {"startResolved", "startRejected"} =>
              (state = "Starting" /\ profileSession = null)
       /\ lastOp'.op \in {"stopResolved", "stopRejected"} =>
              (state = "Stopping" /\ profileSession = null)]_vars

C14_Witness ==
    /\ state = "Stopping"
    /\ pendingStarts = 0
    /\ pendingStops[2] = 1
    /\ pendingStops[1] = 0
    /\ lastOp.op = "click"

\* C15: stateChanged fires once in a handler that changes the state and not
\* at all in any other; when it is delivered the state field holds the new
\* value, and the item is already visible with its handler (Running) or
\* already hidden without it (Stopping).
C15_StateChangedAfterUpdate ==
    [][/\ Count(trace', "stateChanged") = IF state' # state THEN 1 ELSE 0
       /\ \A i \in DOMAIN trace' :
              trace'[i].kind = "stateChanged" =>
                  /\ trace'[i].state = state'
                  /\ state' = "Running" =>
                        (~trace'[i].hidden /\ trace'[i].clickHandler = StopAndOpen)
                  /\ state' = "Stopping" =>
                        (trace'[i].hidden /\ trace'[i].clickHandler = null)]_vars

C15_Witness ==
    /\ lastOp.op = "stopProfiling"
    /\ lastOp.pre.state = "Running"
    /\ state = "Stopping"
    /\ Count(trace, "stateChanged") = 1
    /\ trace[1].kind = "stateChanged"
    /\ trace[1].hidden

\* C16: at most one timer is live, and a live timer, an origin and a click
\* handler each exist exactly when the item is visible; the live timer is
\* the one labelUpdater names.
C16_IndicatorResources ==
    /\ Cardinality(LiveTimers) <= 1
    /\ (LiveTimers # {}) <=> Visible
    /\ (labelUpdater # null) <=> Visible
    /\ (timeStarted # 0) <=> Visible
    /\ (clickHandler # null) <=> Visible
    /\ Visible => LiveTimers = {labelUpdater}

C16_Witness ==
    /\ hidden
    /\ LiveTimers = {}
    /\ lastOp.op = "hide"
    /\ ~lastOp.pre.hidden
    /\ lastOp.pre.state = "Running"

\* C17: a click runs the stored handler exactly once when there is one and
\* does nothing when there is none; the handler the service installs opens
\* the editor once, after everything stopProfiling() does.
C17_ClickDelegation ==
    [][lastOp'.op = "click" =>
          /\ clickHandler = null =>
                /\ trace' = <<>>
                /\ UNCHANGED <<state, profileSession, profile>>
                /\ UNCHANGED Indicator
                /\ UNCHANGED Requests
          /\ clickHandler = OtherHandler =>
                /\ Count(trace', "otherHandler") = 1
                /\ Len(trace') = 1
          /\ clickHandler = StopAndOpen =>
                /\ Count(trace', "openEditor") = 1
                /\ trace'[Len(trace')].kind = "openEditor"
                /\ Count(trace', "otherHandler") = 0
                /\ state = "Running" =>
                      \E i \in DOMAIN trace' : trace'[i].kind = "stopCall"]_vars

C17_Witness ==
    /\ lastOp.op = "click"
    /\ lastOp.pre.state = "Running"
    /\ Len(trace) = 3
    /\ trace[2].kind = "stopCall"
    /\ trace[3].kind = "openEditor"

\* C18: the handler the service installs only ever runs while the state is
\* Running: its stopProfiling() is accepted, the state becomes Stopping and
\* the item is hidden without handler; a handler appears only on entering
\* Running, so a Running period has at most one handled click.
C18_ClickOnlyWhileRunning ==
    [][/\ (lastOp'.op = "click" /\ clickHandler # null) =>
              /\ clickHandler = StopAndOpen
              /\ state = "Running"
              /\ state' = "Stopping"
              /\ hidden'
              /\ clickHandler' = null
              /\ Count(trace', "stopCall") = 1
              /\ Count(trace', "openEditor") = 1
       /\ (clickHandler = null /\ clickHandler' # null) =>
              (state # "Running" /\ state' = "Running")
       /\ (lastOp'.op = "click" /\ state # "Running") =>
              Count(trace', "openEditor") = 0]_vars

C18_Witness ==
    /\ lastOp.op = "click"
    /\ lastOp.pre.state = "Stopping"
    /\ state = "Stopping"
    /\ trace = <<>>
    /\ clickHandler = null

\* C19: when a stop request succeeds with profile A, lastProfileChanged
\* fires first, in state Stopping with getLastProfile() = A, and a
\* startProfiling() called by its listener is rejected; stateChanged for
\* Stopping->None fires next, with getLastProfile() = A.
C19_ProfileBeforeNone ==
    [][lastOp'.op = "stopResolved" =>
          /\ Len(trace') >= 2
          /\ trace'[1].kind = "lastProfileChanged"
          /\ trace'[1].state = "Stopping"
          /\ trace'[1].profile = lastOp'.arg
          /\ trace'[2].kind = "stateChanged"
          /\ trace'[2].state = "None"
          /\ trace'[2].profile = lastOp'.arg]_vars

C19_Witness ==
    /\ lastOp.op = "stopResolved"
    /\ "startOnLastProfile" \in listeners
    /\ Len(trace) = 2
    /\ trace[2].kind = "stateChanged"
    /\ state = "None"
    /\ pendingStarts = 0
    /\ profile = lastOp.arg

\* C20: with listeners that call stopProfiling() when they see Running or
\* startProfiling() when they see None, every change of the state is still
\* on an edge of the graph, and when a handler returns the item is visible
\* exactly when the state is Running and a session is held exactly when the
\* state is Running.
C20_ReentrantListeners ==
    [][/\ LET ch == StateChain(state, trace')
          IN /\ \A i \in 1..(Len(ch) - 1) : <<ch[i], ch[i + 1]>> \in Edges
             /\ state' = ch[Len(ch)]
       /\ Visible' <=> (state' = "Running")
       /\ (profileSession' # null) <=> (state' = "Running")]_vars

C20_Witness ==
    /\ {"stopOnRunning", "startOnNone"} \subseteq listeners
    /\ lastOp.op = "stopResolved"
    /\ Count(trace, "stateChanged") = 2
    /\ state = "Starting"
    /\ nextHandle > 2

TypeOK ==
    /\ state \in ProfileSessionState
    /\ profileSession \in {null} \cup Handles
    /\ profile \in {null} \cup Artifacts
    /\ hidden \in BOOLEAN
====
